---- MODULE Spec2Model ----
(***************************************************************************)
(* darca-vector-db: the Qdrant adapter (QdrantDBClient) and the dispatch   *)
(* facade (DBClient) of src/darca_vector_db/db_client.py.                  *)
(*                                                                         *)
(* Every call is synchronous, so one action is one whole call.  What a call *)
(* did is kept in `last`: the operation, its arguments, its outcome (a      *)
(* return value or the exception raised) and the ordered events it caused   *)
(* (adapter constructions, adapter calls made by the facade, backend calls  *)
(* and log events).  The backend library (qdrant_client) is the environment:*)
(* what a backend call does is an input of the action.                      *)
(***************************************************************************)
EXTENDS Integers, Sequences, FiniteSets, TLC

VARIABLES env, adapter, facade, nextHandle, last

vars == <<env, adapter, facade, nextHandle, last>>

(* ---------- bounds ---------- *)

\* Handles (QdrantClient objects) that may be constructed in one run.
MaxHandles == 2
\* Leading letters of a metric name whose letter case is varied.
MaxCasePrefix == 1

(* ---------- Python values ---------- *)

\* None, and a value that is present; an omitted argument is None too.
None == <<>>
Some(x) == <<x>>
Omitted == <<>>

\* An argument as the callee sees it: the default when it was left out.
Default(arg, d) == IF arg = Omitted THEN d ELSE arg[1]

(* ---------- str.upper() ---------- *)

\* The upper-case letter of each lower-case ASCII letter.
UpperOf ==
    [a |-> "A", b |-> "B", c |-> "C", d |-> "D", e |-> "E", f |-> "F", g |-> "G",
     h |-> "H", i |-> "I", j |-> "J", k |-> "K", l |-> "L", m |-> "M", n |-> "N",
     o |-> "O", p |-> "P", q |-> "Q", r |-> "R", s |-> "S", t |-> "T", u |-> "U",
     v |-> "V", w |-> "W", x |-> "X", y |-> "Y", z |-> "Z"]

\* c.upper() of one character: letters a-z are mapped, all else is kept.
UpperChar(c) == IF c \in DOMAIN UpperOf THEN UpperOf[c] ELSE c

\* s.upper() of a string given as its sequence of characters.
Upper(s) == [i \in 1..Len(s) |-> UpperChar(s[i])]

(* ---------- qdrant_client.http.models.Distance ---------- *)

\* The members of the backend's Distance enum, by member name.
DistanceMembers ==
    { <<"C","O","S","I","N","E">>,
      <<"E","U","C","L","I","D">>,
      <<"D","O","T">>,
      <<"M","A","N","H","A","T","T","A","N">> }

\* getattr(Distance, name): the member, or AttributeError.
HasDistance(name) == name \in DistanceMembers
GetDistance(name) == [member |-> name]

(* ---------- int(os.getenv(...)) ---------- *)

Digits == <<"0","1","2","3","4","5","6","7","8","9">>
DigitVal(c) == (CHOOSE i \in 1..10 : Digits[i] = c) - 1

RECURSIVE ParseInt(_)
\* int(s) of a decimal string given as its sequence of characters.
ParseInt(s) ==
    IF Len(s) = 0 THEN 0
    ELSE 10 * ParseInt(SubSeq(s, 1, Len(s) - 1)) + DigitVal(s[Len(s)])

\* os.getenv(name, default)
GetEnv(value, default) == IF value = None THEN default ELSE value[1]

(* ---------- program constants ---------- *)

DefaultPort == 6333
DefaultTopK == 10
DefaultHost == "localhost"
DefaultMetric == <<"c","o","s","i","n","e">>
DefaultBackend == "qdrant"

(* ---------- outcomes and events ---------- *)

Return(v) == [kind |-> "return", type |-> "", code |-> "", msg |-> <<>>, value |-> v]
Raise(t, c, m) == [kind |-> "raise", type |-> t, code |-> c, msg |-> m, value |-> None]

\* DBClientException.__init__ (and its four subclasses, which add nothing).
DBClientException(type, message, error_code) == Raise(type, error_code, <<message>>)

LogEvent(logger, level, msg) == [kind |-> "log", who |-> logger, what |-> level, args |-> msg]
\* A call into the backend library: the QdrantClient constructor (on = None) or a
\* method of the handle `on`, with what the call did: the exception it raised
\* ("none" when it returned) and the value it returned.
BackendCall(on, method, args, b, value) ==
    [kind |-> "backend", who |-> on, what |-> method, args |-> args,
     raised |-> IF b = "ok" THEN "none" ELSE b,
     returned |-> IF b = "ok" THEN value ELSE None]
\* The facade calling an operation of its adapter, and what came back.
AdapterCall(op, args) == [kind |-> "adapter_call", who |-> "QdrantDBClient", what |-> op, args |-> args]
AdapterResult(op, outcome) == [kind |-> "adapter_result", who |-> "QdrantDBClient", what |-> op, args |-> outcome]
AdapterNew(args) == [kind |-> "adapter_new", who |-> "QdrantDBClient", what |-> "__init__", args |-> args]

AdapterLogger == "darca-vector-db.qdrant"
FacadeLogger == "darca-vector-db"

\* What one adapter operation did: the adapter afterwards, the outcome, the events.
Result(self, outcome, ev) == [self |-> self, outcome |-> outcome, ev |-> ev]

(* ---------- the backend library, as the adapter sees it ---------- *)

\* What a backend call does: it returns, or raises its "unexpected response"
\* error, an AttributeError of its own, or any other exception (a transport
\* failure, a timeout, a validation error).
BackendOutcomes == {"ok", "UnexpectedResponse", "AttributeError", "Exception"}
\* What constructing a QdrantClient does.
ConstructorOutcomes == {"ok", "Exception"}

(* ---------- QdrantDBClient ---------- *)

\* QdrantDBClient.__init__: host and port come from the environment when it
\* sets them, else from the arguments; the handle starts as None.
QdrantDBClientInit(e, host, port, api_key) ==
    [host    |-> GetEnv(e.host, Default(host, DefaultHost)),
     port    |-> IF e.port = None THEN Default(port, DefaultPort)
                 ELSE ParseInt(e.port[1]),
     api_key |-> Default(api_key, None),
     client  |-> None]

\* QdrantClient(host=self.host, port=self.port, api_key=self.api_key): the
\* h-th client object constructed.
NewQdrantClient(self, h) ==
    [id |-> h, host |-> self.host, port |-> self.port, api_key |-> self.api_key]

\* Mutant: connect keeps the handle it already holds (an idempotence check).
ConnectedHandle_Idempotent(self, h) ==
    IF self.client # None THEN self.client ELSE Some(NewQdrantClient(self, h))

\* The handle self.client is bound to by a successful connect.
ConnectedHandle(self, h) == Some(NewQdrantClient(self, h))

ConnectArgs(self) == [host |-> self.host, port |-> self.port, api_key |-> self.api_key]

\* Mutant: a connect that fails clears the handle.
QConnect_ClearsOnFailure(self, h, b) ==
    LET call == BackendCall(None, "QdrantClient", ConnectArgs(self), b, None) IN
    IF b = "ok"
    THEN Result([self EXCEPT !.client = Some(NewQdrantClient(self, h))],
                Return(None),
                <<call,
                  LogEvent(AdapterLogger, "info",
                           <<"Successfully connected to Qdrant at ", self.host, ":", self.port>>)>>)
    ELSE Result([self EXCEPT !.client = None],
                DBClientException("DBConnectionError",
                                  "Failed to connect to Qdrant server", "DB_CONN_ERROR"),
                <<call,
                  LogEvent(AdapterLogger, "error", <<"Connection to Qdrant failed">>)>>)

\* QdrantDBClient.connect; b is what the QdrantClient constructor does.
QConnect(self, h, b) ==
    LET call == BackendCall(None, "QdrantClient", ConnectArgs(self), b, None) IN
    IF b = "ok"
    THEN Result([self EXCEPT !.client = ConnectedHandle(self, h)],
                Return(None),
                <<call,
                  LogEvent(AdapterLogger, "info",
                           <<"Successfully connected to Qdrant at ", self.host, ":", self.port>>)>>)
    ELSE Result(self,
                DBClientException("DBConnectionError",
                                  "Failed to connect to Qdrant server", "DB_CONN_ERROR"),
                <<call,
                  LogEvent(AdapterLogger, "error", <<"Connection to Qdrant failed">>)>>)

\* Mutant: the message names the upper-cased metric, not the one supplied.
UnsupportedMetric_Uppercased(distance_metric) ==
    Raise("ValueError", "", <<"Unsupported distance metric: ", Upper(distance_metric)>>)

\* raise ValueError(f"Unsupported distance metric: {distance_metric}")
UnsupportedMetric(distance_metric) ==
    Raise("ValueError", "", <<"Unsupported distance metric: ", distance_metric>>)

\* VectorParams(size=vector_size, distance=distance)
VectorParams(size, distance) == [size |-> size, distance |-> distance]

\* The try block of create_collection: the exception it ends with ("none" when
\* it runs to its end) and the backend calls it made.  getattr raises
\* AttributeError on a name that is no member; so does the method lookup on a
\* handle that is None; the backend call raises what the backend raises.
CreateCollectionTry(self, name, vector_size, distance_metric, b) ==
    IF ~HasDistance(Upper(distance_metric))
    THEN [exc |-> "AttributeError", ev |-> <<>>]
    ELSE IF self.client = None
    THEN [exc |-> "AttributeError", ev |-> <<>>]
    ELSE [exc |-> IF b = "ok" THEN "none" ELSE b,
          ev  |-> <<BackendCall(self.client, "create_collection",
                                <<name, VectorParams(vector_size,
                                                    GetDistance(Upper(distance_metric)))>>,
                                b, None)>>]

\* QdrantDBClient.create_collection; b is what the backend call does.
QCreateCollection(self, name, vector_size, metric_arg, b) ==
    LET distance_metric == Default(metric_arg, DefaultMetric)
        t == CreateCollectionTry(self, name, vector_size, distance_metric, b)
    IN  CASE t.exc = "none" ->
               Result(self, Return(None),
                      t.ev \o <<LogEvent(AdapterLogger, "info",
                                         <<"Collection '", name, "' created successfully.">>)>>)
          [] t.exc = "AttributeError" ->
               Result(self, UnsupportedMetric(distance_metric), t.ev)
          [] t.exc = "UnexpectedResponse" ->
               Result(self,
                      DBClientException("CollectionCreationError",
                                        "Failed to create collection",
                                        "COLLECTION_CREATION_ERROR"),
                      t.ev \o <<LogEvent(AdapterLogger, "error",
                                         <<"Failed to create collection">>)>>)
          [] OTHER ->
               \* no handler matches: the backend's exception leaves the adapter
               Result(self, Raise(t.exc, "", <<"backend">>), t.ev)

\* Mutant: the point is built without the metadata.
PointStruct_NoPayload(vector_id, vector, metadata) ==
    [id |-> vector_id, vector |-> vector, payload |-> None]

\* PointStruct(id=vector_id, vector=vector, payload=metadata)
PointStruct(vector_id, vector, metadata) ==
    [id |-> vector_id, vector |-> vector, payload |-> metadata]

\* Mutant: insert_vector on an adapter without a handle returns at once.
QInsertVector_SkipsWithoutHandle(self, collection_name, vector_id, vector, metadata_arg, b) ==
    LET metadata == Default(metadata_arg, None)
        point == [id |-> vector_id, vector |-> vector, payload |-> metadata]
        ev == <<BackendCall(self.client, "upsert",
                            [collection_name |-> collection_name, points |-> <<point>>],
                            b, None)>>
    IN  IF self.client = None
        THEN Result(self, Return(None), <<>>)
        ELSE IF b = "ok"
        THEN Result(self, Return(None),
                    ev \o <<LogEvent(AdapterLogger, "info",
                                     <<"Vector with ID '", vector_id,
                                       "' inserted successfully into '",
                                       collection_name, "'.">>)>>)
        ELSE Result(self,
                    DBClientException("VectorInsertionError",
                                      "Failed to insert vector", "VECTOR_INSERTION_ERROR"),
                    ev \o <<LogEvent(AdapterLogger, "error", <<"Failed to insert vector">>)>>)

\* QdrantDBClient.insert_vector; b is what the backend upsert does.
QInsertVector(self, collection_name, vector_id, vector, metadata_arg, b) ==
    LET metadata == Default(metadata_arg, None)
        point == PointStruct(vector_id, vector, metadata)
        called == self.client # None
        ev == IF called
              THEN <<BackendCall(self.client, "upsert",
                                 [collection_name |-> collection_name, points |-> <<point>>],
                                 b, None)>>
              ELSE <<>>
    IN  IF called /\ b = "ok"
        THEN Result(self, Return(None),
                    ev \o <<LogEvent(AdapterLogger, "info",
                                     <<"Vector with ID '", vector_id,
                                       "' inserted successfully into '",
                                       collection_name, "'.">>)>>)
        ELSE Result(self,
                    DBClientException("VectorInsertionError",
                                      "Failed to insert vector", "VECTOR_INSERTION_ERROR"),
                    ev \o <<LogEvent(AdapterLogger, "error", <<"Failed to insert vector">>)>>)

\* Mutant: the limit is always the default, whatever top_k is.
SearchLimit_AlwaysDefault(top_k_arg) == DefaultTopK

\* The limit search_vectors passes to the backend.
SearchLimit(top_k_arg) == Default(top_k_arg, DefaultTopK)

\* What search_vectors returns of the backend's results.
SearchReturn(results) == results

\* Mutant: a failed search drops the handle, to force a reconnect.
QSearchVectors_DropsHandle(self, collection_name, query_vector, top_k_arg, b, results) ==
    LET top_k == Default(top_k_arg, DefaultTopK)
        called == self.client # None
        ev == IF called
              THEN <<BackendCall(self.client, "search",
                                 [collection_name |-> collection_name,
                                  query_vector |-> query_vector, limit |-> top_k],
                                 b, results)>>
              ELSE <<>>
    IN  IF called /\ b = "ok"
        THEN Result(self, Return(results),
                    ev \o <<LogEvent(AdapterLogger, "info",
                                     <<"Search completed successfully in collection '",
                                       collection_name, "'.">>)>>)
        ELSE Result([self EXCEPT !.client = None],
                    DBClientException("VectorSearchError",
                                      "Failed to search vectors", "VECTOR_SEARCH_ERROR"),
                    ev \o <<LogEvent(AdapterLogger, "error", <<"Failed to search vectors">>)>>)

\* QdrantDBClient.search_vectors; b is what the backend search does and
\* results what it returns when it returns.
QSearchVectors(self, collection_name, query_vector, top_k_arg, b, results) ==
    LET top_k == SearchLimit(top_k_arg)
        called == self.client # None
        ev == IF called
              THEN <<BackendCall(self.client, "search",
                                 [collection_name |-> collection_name,
                                  query_vector |-> query_vector, limit |-> top_k],
                                 b, results)>>
              ELSE <<>>
    IN  IF called /\ b = "ok"
        THEN Result(self, Return(SearchReturn(results)),
                    ev \o <<LogEvent(AdapterLogger, "info",
                                     <<"Search completed successfully in collection '",
                                       collection_name, "'.">>)>>)
        ELSE Result(self,
                    DBClientException("VectorSearchError",
                                      "Failed to search vectors", "VECTOR_SEARCH_ERROR"),
                    ev \o <<LogEvent(AdapterLogger, "error", <<"Failed to search vectors">>)>>)

(* ---------- DBClient ---------- *)

\* Mutant: the backend identifier is matched without regard to letter case.
KnownBackend_AnyCase(backend) == backend \in {"qdrant", "QDRANT"}

\* The closed set of backends DBClient.__init__ knows.
KnownBackend(backend) == backend = "qdrant"

\* DBClient.__init__(backend, **kwargs): the adapter the facade holds (None
\* when construction raised), the outcome and the events.
DBClientInit(e, backend_arg, host, port, api_key) ==
    LET backend == Default(backend_arg, DefaultBackend) IN
    IF KnownBackend(backend)
    THEN Result(Some(QdrantDBClientInit(e, host, port, api_key)),
                Return(None),
                <<AdapterNew(<<host, port, api_key>>)>>)
    ELSE Result(None,
                DBClientException("DBClientException",
                                  "Backend '" \o backend \o "' is not supported",
                                  "DB_UNSUPPORTED_BACKEND"),
                <<>>)

\* Mutant: the facade forwards and returns without logging.
Forward_NoLog(call, r, msg) ==
    Result(r.self, r.outcome, <<call>> \o r.ev \o <<AdapterResult(call.what, r.outcome)>>)

\* Mutant: the facade translates what the adapter raises into its own error.
Forward_Translating(call, r, msg) ==
    LET ev == <<call>> \o r.ev \o <<AdapterResult(call.what, r.outcome)>> IN
    IF r.outcome.kind = "return"
    THEN Result(r.self, r.outcome, ev \o <<LogEvent(FacadeLogger, "info", msg)>>)
    ELSE Result(r.self,
                DBClientException("DBClientException", "Operation failed", "DB_ERROR"),
                ev)

\* The body shared by the four facade operations: the adapter's operation is
\* called (r is what it did); when it returns, the facade logs and returns
\* its value; when it raises, the exception passes through the facade.
Forward(call, r, msg) ==
    LET ev == <<call>> \o r.ev \o <<AdapterResult(call.what, r.outcome)>> IN
    IF r.outcome.kind = "return"
    THEN Result(r.self, r.outcome, ev \o <<LogEvent(FacadeLogger, "info", msg)>>)
    ELSE Result(r.self, r.outcome, ev)

\* DBClient.connect
DConnect(self, h, b) ==
    Forward(AdapterCall("connect", <<>>),
            QConnect(self, h, b),
            <<"Connected to the vector database.">>)

\* DBClient.create_collection
DCreateCollection(self, name, vector_size, metric_arg, b) ==
    LET distance_metric == Default(metric_arg, DefaultMetric) IN
    Forward(AdapterCall("create_collection", <<name, vector_size, distance_metric>>),
            QCreateCollection(self, name, vector_size, Some(distance_metric), b),
            <<"Collection '", name, "' created.">>)

\* DBClient.insert_vector
DInsertVector(self, collection_name, vector_id, vector, metadata_arg, b) ==
    LET metadata == Default(metadata_arg, None) IN
    Forward(AdapterCall("insert_vector", <<collection_name, vector_id, vector, metadata>>),
            QInsertVector(self, collection_name, vector_id, vector, Some(metadata), b),
            <<"Vector '", vector_id, "' inserted into collection '", collection_name, "'.">>)

\* DBClient.search_vectors
DSearchVectors(self, collection_name, query_vector, top_k_arg, b, results) ==
    LET top_k == Default(top_k_arg, DefaultTopK) IN
    Forward(AdapterCall("search_vectors", <<collection_name, query_vector, top_k>>),
            QSearchVectors(self, collection_name, query_vector, Some(top_k), b, results),
            <<"Search completed in collection '", collection_name, "'.">>)

(* ---------- inputs ---------- *)

Min(a, b) == IF a < b THEN a ELSE b

\* The spellings of w whose first MaxCasePrefix letters are in either case,
\* and w in capitals.
CaseVariants(w) ==
    { [i \in 1..Len(w) |-> IF i \in S THEN UpperChar(w[i]) ELSE w[i]] :
        S \in SUBSET (1..Min(MaxCasePrefix, Len(w))) } \cup {Upper(w)}

\* The metric names the documentation lists (BaseDBClient.create_collection).
DocumentedMetrics ==
    { <<"c","o","s","i","n","e">>,
      <<"e","u","c","l","i","d","e","a","n">>,
      <<"d","o","t">> }

OtherMetrics ==
    { <<"I","N","V","A","L","I","D","_","M","E","T","R","I","C">>,
      <<"e","u","c","l","i","d">>,
      <<>> }

Metrics == UNION {CaseVariants(w) : w \in DocumentedMetrics} \cup OtherMetrics

Optional(S) == {Omitted} \cup {Some(x) : x \in S}

\* The process environment: DARCA_VECTORDB_HOST and DARCA_VECTORDB_PORT unset,
\* or both set (the port to a decimal string).
Envs ==
    { [host |-> None, port |-> None],
      [host |-> Some("envhost"), port |-> Some(<<"6","3","3","4">>)] }
\* The keyword arguments of a construction: all left out, or all given.
ConfigArgs ==
    { [host |-> Omitted, port |-> Omitted, api_key |-> Omitted],
      [host |-> Some("h2"), port |-> Some(7000), api_key |-> Some(Some("key"))] }
BackendArgs == Optional({"qdrant", "QDRANT", "invalid_backend"})
MetricArgs == Optional(Metrics)
\* Collections: a name and a dimensionality.
Collections ==
    { [name |-> "c", vector_size |-> 3],
      [name |-> "test_collection", vector_size |-> 128] }
\* Points to insert; vector components in tenths: [0.1, 0.2, 0.3] is <<1, 2, 3>>.
Points ==
    { [collection_name |-> "c", vector_id |-> "vec1", vector |-> <<1, 2, 3>>],
      [collection_name |-> "test_collection", vector_id |-> "vec2", vector |-> <<5>>] }
MetadataArgs == Optional({Some([tag |-> "a"])})
Queries ==
    { [collection_name |-> "c", query_vector |-> <<1, 2, 3>>],
      [collection_name |-> "test_collection", query_vector |-> <<5>>] }
TopKArgs == Optional({1, 10})
\* What the backend search does: it returns a result sequence, or raises.
SearchBehaviours ==
    { [b |-> "ok", results |-> r] : r \in {<<>>, <<"r1", "r2">>} }
    \cup { [b |-> x, results |-> <<>>] : x \in BackendOutcomes \ {"ok"} }

(* ---------- the state machine ---------- *)

\* The last call: who was called ("adapter" or "facade"), the operation, the
\* arguments as the caller wrote them, the adapter object before the call
\* (None for a construction), the outcome and the events.
Call(layer, op, args, before, r) ==
    [layer |-> layer, op |-> op, args |-> args, before |-> before,
     outcome |-> r.outcome, ev |-> r.ev]

NoCall == Call("none", "none", <<>>, None, Result(None, Return(None), <<>>))

Init ==
    /\ env \in Envs
    /\ adapter = None
    /\ facade = FALSE
    /\ nextHandle = 0
    /\ last = NoCall

\* QdrantDBClient(host, port, api_key), called by the program itself.
NewQdrantDBClient ==
    \E c \in ConfigArgs :
        /\ adapter' = Some(QdrantDBClientInit(env, c.host, c.port, c.api_key))
        /\ facade' = FALSE
        /\ last' = Call("adapter", "__init__", <<c>>, None, Result(None, Return(None), <<>>))
        /\ UNCHANGED <<env, nextHandle>>

\* DBClient(backend, **kwargs)
NewDBClient ==
    \E backend \in BackendArgs, c \in ConfigArgs :
        LET r == DBClientInit(env, backend, c.host, c.port, c.api_key) IN
        /\ IF r.outcome.kind = "return"
           THEN adapter' = r.self /\ facade' = TRUE
           ELSE UNCHANGED <<adapter, facade>>
        /\ last' = Call("facade", "__init__", <<backend, c>>, None, r)
        /\ UNCHANGED <<env, nextHandle>>

\* One call of an operation: r is what it did to the adapter `self`.
Do(layer, op, args, r) ==
    /\ adapter' = Some(r.self)
    /\ last' = Call(layer, op, args, adapter, r)
    /\ UNCHANGED <<env, facade>>

\* Whether the call goes to the adapter or through the facade holding it.
Layers == IF adapter = None THEN {} ELSE IF facade THEN {"adapter", "facade"} ELSE {"adapter"}

Connect ==
    \E layer \in Layers, b \in ConstructorOutcomes :
        /\ b = "ok" => nextHandle < MaxHandles
        /\ Do(layer, "connect", <<>>,
              IF layer = "facade" THEN DConnect(adapter[1], nextHandle, b)
              ELSE QConnect(adapter[1], nextHandle, b))
        /\ nextHandle' = IF b = "ok" THEN nextHandle + 1 ELSE nextHandle

CreateCollection ==
    \E layer \in Layers, c \in Collections, metric \in MetricArgs, b \in BackendOutcomes :
        /\ Do(layer, "create_collection", <<c.name, c.vector_size, metric>>,
              IF layer = "facade"
              THEN DCreateCollection(adapter[1], c.name, c.vector_size, metric, b)
              ELSE QCreateCollection(adapter[1], c.name, c.vector_size, metric, b))
        /\ UNCHANGED nextHandle

InsertVector ==
    \E layer \in Layers, p \in Points, metadata \in MetadataArgs, b \in BackendOutcomes :
        /\ Do(layer, "insert_vector",
              <<p.collection_name, p.vector_id, p.vector, metadata>>,
              IF layer = "facade"
              THEN DInsertVector(adapter[1], p.collection_name, p.vector_id, p.vector,
                                 metadata, b)
              ELSE QInsertVector(adapter[1], p.collection_name, p.vector_id, p.vector,
                                 metadata, b))
        /\ UNCHANGED nextHandle

SearchVectors ==
    \E layer \in Layers, q \in Queries, top_k \in TopKArgs, s \in SearchBehaviours :
        /\ Do(layer, "search_vectors",
              <<q.collection_name, q.query_vector, top_k>>,
              IF layer = "facade"
              THEN DSearchVectors(adapter[1], q.collection_name, q.query_vector, top_k,
                                  s.b, s.results)
              ELSE QSearchVectors(adapter[1], q.collection_name, q.query_vector, top_k,
                                  s.b, s.results))
        /\ UNCHANGED nextHandle

Next ==
    \/ NewQdrantDBClient
    \/ NewDBClient
    \/ Connect
    \/ CreateCollection
    \/ InsertVector
    \/ SearchVectors

Spec == Init /\ [][Next]_vars

(* ---------- reading the last call ---------- *)

AdapterOps == {"connect", "create_collection", "insert_vector", "search_vectors"}

\* The events of one kind, in order.
EventsOf(kind) == SelectSeq(last.ev, LAMBDA e : e.kind = kind)
BackendCalls == EventsOf("backend")
\* The log events of one logger, in order.
LogsOf(logger) == SelectSeq(last.ev, LAMBDA e : e.kind = "log" /\ e.who = logger)
\* The backend calls of one method, in order.
BackendCallsTo(method) == SelectSeq(last.ev, LAMBDA e : e.kind = "backend" /\ e.what = method)

\* The last call ran an adapter operation (directly, or through the facade).
AdapterOpCalled == last.op \in AdapterOps
\* The backend raised during the last call.
BackendFailed == \E i \in 1..Len(BackendCalls) : BackendCalls[i].raised # "none"
\* The adapter held a handle when the last call began.
WasConnected == last.before # None /\ last.before[1].client # None

\* The typed error of each adapter operation and its code.
TypedError(op) ==
    CASE op = "connect" -> "DBConnectionError"
      [] op = "create_collection" -> "CollectionCreationError"
      [] op = "insert_vector" -> "VectorInsertionError"
      [] op = "search_vectors" -> "VectorSearchError"
ErrorCode(op) ==
    CASE op = "connect" -> "DB_CONN_ERROR"
      [] op = "create_collection" -> "COLLECTION_CREATION_ERROR"
      [] op = "insert_vector" -> "VECTOR_INSERTION_ERROR"
      [] op = "search_vectors" -> "VECTOR_SEARCH_ERROR"

\* The last call raised the typed error of its operation, after one error log
\* event of the adapter that follows every backend call.
RaisedTypedAfterErrorLog ==
    /\ last.outcome.kind = "raise"
    /\ last.outcome.type = TypedError(last.op)
    /\ last.outcome.code = ErrorCode(last.op)
    /\ Len(LogsOf(AdapterLogger)) = 1
    /\ LogsOf(AdapterLogger)[1].what = "error"
    /\ \E i \in 1..Len(last.ev) :
          /\ last.ev[i].kind = "log" /\ last.ev[i].who = AdapterLogger
          /\ \A j \in 1..Len(last.ev) : last.ev[j].kind = "backend" => j < i

(* ---------- C1 ---------- *)

\* C1: whenever the backend raises during connect, create_collection,
\* insert_vector or search_vectors, whatever it raises, the adapter emits an
\* error log event and then raises the typed error of the operation with its
\* exact code; the backend's own exception never reaches the caller.
C1_BackendFailureIsTyped ==
    (AdapterOpCalled /\ BackendFailed) => RaisedTypedAfterErrorLog

(* ---------- C2 ---------- *)

\* The distance metric the last create_collection call was given.
MetricGiven ==
    IF last.args[3] = Omitted THEN <<"c","o","s","i","n","e">> ELSE last.args[3][1]

\* The metric of the last create_collection call names no member of the
\* backend's Distance enum.
MetricUnresolvable ==
    /\ last.op = "create_collection"
    /\ Upper(MetricGiven) \notin DistanceMembers

\* C2: create_collection with a distance metric that resolves to no backend
\* enum member raises ValueError whose message holds the metric string exactly
\* as supplied, and makes no backend create-collection call, whether or not
\* the adapter holds a handle.
C2_InvalidMetricRejected ==
    MetricUnresolvable =>
        /\ last.outcome.kind = "raise"
        /\ last.outcome.type = "ValueError"
        /\ Len(last.outcome.msg) = 2
        /\ last.outcome.msg[1] = "Unsupported distance metric: "
        /\ last.outcome.msg[2] = MetricGiven
        /\ Len(BackendCalls) = 0

\* create_collection("c", 3, "INVALID_METRIC") on a connected adapter.
C2_Witness ==
    /\ MetricUnresolvable
    /\ MetricGiven = <<"I","N","V","A","L","I","D","_","M","E","T","R","I","C">>
    /\ WasConnected
    /\ last.outcome.type = "ValueError"

(* ---------- C3 ---------- *)

FacadeConstructed == last.layer = "facade" /\ last.op = "__init__"
BackendGiven == IF last.args[1] = Omitted THEN "qdrant" ELSE last.args[1][1]

\* C3: DBClient(backend) with a backend other than "qdrant" raises
\* DBClientException with code DB_UNSUPPORTED_BACKEND before any adapter is
\* constructed and before any connection attempt; with "qdrant" it constructs
\* exactly one adapter and makes no connection attempt.
C3_FacadeConstruction ==
    FacadeConstructed =>
        IF BackendGiven = "qdrant"
        THEN /\ last.outcome.kind = "return"
             /\ Len(EventsOf("adapter_new")) = 1
             /\ Len(BackendCalls) = 0
             /\ facade /\ adapter # None /\ adapter[1].client = None
        ELSE /\ last.outcome.kind = "raise"
             /\ last.outcome.type = "DBClientException"
             /\ last.outcome.code = "DB_UNSUPPORTED_BACKEND"
             /\ last.ev = <<>>

\* DBClient(backend="invalid_backend") raised while an adapter of an earlier
\* construction was connected.
C3_Witness ==
    /\ FacadeConstructed
    /\ BackendGiven = "invalid_backend"
    /\ last.outcome.code = "DB_UNSUPPORTED_BACKEND"
    /\ adapter # None /\ adapter[1].client # None

(* ---------- C4 ---------- *)

FacadeOpCalled == last.layer = "facade" /\ last.op \in AdapterOps
\* What the adapter handed back to the facade in the last call.
AdapterResults == EventsOf("adapter_result")
AdapterReturned ==
    Len(AdapterResults) = 1 /\ AdapterResults[1].args.kind = "return"
AdapterRaised ==
    Len(AdapterResults) = 1 /\ AdapterResults[1].args.kind = "raise"

\* The arguments the adapter must see: the caller's, the omitted ones filled
\* with distance_metric="cosine", metadata=None, top_k=10.
ForwardedArgs ==
    CASE last.op = "connect" -> <<>>
      [] last.op = "create_collection" ->
           <<last.args[1], last.args[2],
             IF last.args[3] = Omitted THEN <<"c","o","s","i","n","e">> ELSE last.args[3][1]>>
      [] last.op = "insert_vector" ->
           <<last.args[1], last.args[2], last.args[3],
             IF last.args[4] = Omitted THEN None ELSE last.args[4][1]>>
      [] last.op = "search_vectors" ->
           <<last.args[1], last.args[2],
             IF last.args[3] = Omitted THEN 10 ELSE last.args[3][1]>>

\* C4: a facade call whose adapter operation succeeds calls the adapter's
\* same-named operation exactly once with the caller's arguments (defaults
\* filled in), then emits exactly one facade info log event, after the
\* adapter's own info log event; the facade returns what the adapter returned.
C4_FacadeForwardsThenLogs ==
    (FacadeOpCalled /\ AdapterReturned) =>
        /\ Len(EventsOf("adapter_call")) = 1
        /\ EventsOf("adapter_call")[1].what = last.op
        /\ EventsOf("adapter_call")[1].args = ForwardedArgs
        /\ Len(LogsOf(FacadeLogger)) = 1
        /\ LogsOf(FacadeLogger)[1].what = "info"
        /\ last.ev[Len(last.ev)].kind = "log"
        /\ last.ev[Len(last.ev)].who = FacadeLogger
        /\ Len(LogsOf(AdapterLogger)) = 1
        /\ LogsOf(AdapterLogger)[1].what = "info"
        /\ last.outcome.kind = "return"
        /\ last.outcome.value = AdapterResults[1].args.value

\* facade.search_vectors("c", [0.1, 0.2, 0.3]) returned the backend's two results.
C4_Witness ==
    /\ FacadeOpCalled /\ AdapterReturned
    /\ last.op = "search_vectors"
    /\ last.args[3] = Omitted
    /\ last.outcome.value = <<"r1", "r2">>

(* ---------- C5 ---------- *)

\* C5: when the adapter operation called through the facade raises a typed
\* error or ValueError, the facade raises exactly that error, emits no facade
\* log event and does not call the adapter again.
C5_FacadePropagates ==
    (/\ FacadeOpCalled /\ AdapterRaised
     /\ AdapterResults[1].args.type \in
            {"DBConnectionError", "CollectionCreationError", "VectorInsertionError",
             "VectorSearchError", "ValueError"}) =>
        /\ last.outcome = AdapterResults[1].args
        /\ Len(LogsOf(FacadeLogger)) = 0
        /\ Len(EventsOf("adapter_call")) = 1
        /\ last.ev[Len(last.ev)].kind = "adapter_result"

\* facade.insert_vector raised the adapter's VectorInsertionError.
C5_Witness ==
    /\ FacadeOpCalled /\ AdapterRaised
    /\ last.outcome.type = "VectorInsertionError"
    /\ last.outcome.code = "VECTOR_INSERTION_ERROR"

(* ---------- C6 ---------- *)

\* One backend search call with the caller's collection name and query vector
\* and limit top_k (10 when omitted); its results are returned as they are.
OneSearchCallPassedThrough ==
    /\ Len(BackendCalls) = 1
    /\ BackendCalls[1].what = "search"
    /\ BackendCalls[1].args =
          [collection_name |-> last.args[1], query_vector |-> last.args[2],
           limit |-> IF last.args[3] = Omitted THEN 10 ELSE last.args[3][1]]
    /\ BackendCalls[1].raised = "none" =>
          /\ last.outcome.kind = "return"
          /\ last.outcome.value = BackendCalls[1].returned

\* C6 as stated: every search_vectors call issues exactly one backend search
\* call with the collection name, the query vector and limit top_k (10 when
\* omitted) and on backend success returns the backend's results unmodified.
C6_SearchAlwaysCallsBackend ==
    last.op = "search_vectors" => OneSearchCallPassedThrough

\* C6, amended: that holds of every search_vectors call on an adapter that
\* holds a handle.
C6_SearchCallsBackendWhenConnected ==
    (last.op = "search_vectors" /\ WasConnected) => OneSearchCallPassedThrough

\* search_vectors("c", [0.1, 0.2, 0.3]) on a connected adapter, top_k omitted:
\* limit 10, and the backend's ["r1", "r2"] returned.
C6_Witness ==
    /\ last.layer = "adapter" /\ last.op = "search_vectors" /\ WasConnected
    /\ last.args[3] = Omitted
    /\ BackendCalls[1].args.limit = 10
    /\ last.outcome.value = <<"r1", "r2">>

(* ---------- C7 ---------- *)

\* One backend upsert call to the caller's collection with the one point
\* {id, vector, payload} (payload None when metadata is omitted), and on
\* success one adapter info log event naming the vector ID and the collection.
OneUpsertOfOnePoint ==
    /\ Len(BackendCalls) = 1
    /\ BackendCalls[1].what = "upsert"
    /\ BackendCalls[1].args =
          [collection_name |-> last.args[1],
           points |-> << [id |-> last.args[2], vector |-> last.args[3],
                          payload |-> IF last.args[4] = Omitted THEN None
                                      ELSE last.args[4][1]] >>]
    /\ last.outcome.kind = "return" =>
          /\ Len(LogsOf(AdapterLogger)) = 1
          /\ LogsOf(AdapterLogger)[1].what = "info"
          /\ LogsOf(AdapterLogger)[1].args[2] = last.args[2]
          /\ LogsOf(AdapterLogger)[1].args[4] = last.args[1]

\* C7 as stated: every insert_vector call issues exactly one backend upsert
\* call carrying exactly one point built from the arguments.
C7_InsertAlwaysCallsBackend ==
    last.op = "insert_vector" => OneUpsertOfOnePoint

\* C7, amended: that holds of every insert_vector call on an adapter that
\* holds a handle.
C7_InsertCallsBackendWhenConnected ==
    (last.op = "insert_vector" /\ WasConnected) => OneUpsertOfOnePoint

\* insert_vector("c", "vec1", [0.1, 0.2, 0.3]) succeeded on a connected
\* adapter; another witness state carries metadata.
C7_Witness ==
    /\ last.layer = "adapter" /\ last.op = "insert_vector" /\ WasConnected
    /\ last.args = <<"c", "vec1", <<1, 2, 3>>, Omitted>>
    /\ last.outcome.kind = "return"
    /\ BackendCalls[1].args.points[1].payload = None

(* ---------- C8 ---------- *)

\* C8: every call of an adapter operation emits exactly one adapter log event:
\* info when it returns, error when it raises.
C8_OneLogEventPerCall ==
    AdapterOpCalled =>
        /\ Len(LogsOf(AdapterLogger)) = 1
        /\ LogsOf(AdapterLogger)[1].what =
              (IF last.outcome.kind = "return" THEN "info" ELSE "error")

(* ---------- C9 ---------- *)

\* The metric of the last create_collection call is cosine, euclidean or dot
\* in some letter case.
MetricDocumented ==
    /\ last.op = "create_collection"
    /\ \E w \in DocumentedMetrics : Upper(MetricGiven) = Upper(w)

\* C9: with a connected adapter and an accepting backend, create_collection
\* with cosine, euclidean or dot in any letter case resolves the metric to a
\* backend enum value that depends on the name only and not on its case,
\* issues the backend create-collection call with the given name and
\* dimensionality, and returns normally.
C9_DocumentedMetricsResolve ==
    (MetricDocumented /\ WasConnected) =>
        /\ Len(BackendCalls) = 1
        /\ BackendCalls[1].what = "create_collection"
        /\ BackendCalls[1].args[1] = last.args[1]
        /\ BackendCalls[1].args[2].size = last.args[2]
        /\ BackendCalls[1].args[2].distance = [member |-> Upper(MetricGiven)]
        /\ BackendCalls[1].raised = "none" => last.outcome.kind = "return"

(* ---------- C10 ---------- *)

\* The step is a connect that returned.
ConnectSucceeds == last'.op = "connect" /\ last'.outcome.kind = "return"

\* C10: the handle is None from construction until a connect succeeds; every
\* connect that succeeds, also on an adapter that already holds a handle,
\* binds a handle constructed in that call from the adapter's host, port and
\* API key, different from every handle constructed before, and calls nothing
\* on the handle it replaces.
C10_ConnectReplacesHandle ==
    [][ /\ (adapter' # None /\ adapter'[1].client # None /\ ~ConnectSucceeds) =>
              (adapter # None /\ adapter[1].client = adapter'[1].client)
        /\ ConnectSucceeds =>
              /\ adapter'[1].client # None
              /\ adapter'[1].client # adapter[1].client
              /\ adapter'[1].client[1].id >= nextHandle
              /\ adapter'[1].client[1].host = adapter[1].host
              /\ adapter'[1].client[1].port = adapter[1].port
              /\ adapter'[1].client[1].api_key = adapter[1].api_key
              /\ [adapter'[1] EXCEPT !.client = None] = [adapter[1] EXCEPT !.client = None]
              /\ \A i \in 1..Len(last'.ev) :
                    last'.ev[i].kind = "backend" =>
                        (last'.ev[i].what = "QdrantClient" /\ last'.ev[i].who = None)
      ]_vars

\* A connect succeeded on an adapter that already held a handle.
C10_Witness ==
    /\ last.op = "connect" /\ last.outcome.kind = "return"
    /\ WasConnected
    /\ adapter[1].client # last.before[1].client

(* ---------- C11 ---------- *)

\* The host, port and API key of an adapter object.
ConfigOf(a) == [host |-> a[1].host, port |-> a[1].port, api_key |-> a[1].api_key]

\* C11: create_collection, insert_vector and search_vectors leave the handle,
\* host, port and API key as they were, whether they return or raise; connect
\* is the only operation that assigns the handle, and no operation changes
\* host, port or API key.
C11_OnlyConnectAssignsHandle ==
    [][ /\ last'.op \in {"create_collection", "insert_vector", "search_vectors"} =>
              adapter' = adapter
        /\ last'.op = "connect" => ConfigOf(adapter') = ConfigOf(adapter)
        /\ (adapter # None /\ adapter' # None /\ adapter'[1].client # adapter[1].client) =>
              last'.op \in {"connect", "__init__"}
      ]_vars

\* search_vectors raised on an adapter that held a handle and still holds it.
C11_Witness ==
    /\ last.op = "search_vectors"
    /\ last.outcome.kind = "raise"
    /\ WasConnected
    /\ adapter = last.before

(* ---------- C12 ---------- *)

\* C12: create_collection raises ValueError only for a distance metric that
\* resolves to no backend enum member: with a resolvable metric it does not,
\* neither on an adapter whose handle is None nor when the backend's
\* create-collection call raises AttributeError; and whenever it raises
\* ValueError it has attempted no backend call.
C12_ValueErrorOnlyForUnresolvableMetric ==
    (last.op = "create_collection" /\ last.outcome.kind = "raise"
        /\ last.outcome.type = "ValueError") =>
        /\ Upper(MetricGiven) \notin DistanceMembers
        /\ Len(BackendCalls) = 0

(* ---------- C13 ---------- *)

\* The adapter held no handle when the last call began.
HandleWasNone == last.before # None /\ last.before[1].client = None

\* C13: insert_vector and search_vectors on an adapter whose handle is still
\* None make no backend call, emit one error log event and raise
\* VectorInsertionError / VECTOR_INSERTION_ERROR and VectorSearchError /
\* VECTOR_SEARCH_ERROR; the handle stays None.  On an adapter that a connect
\* has given a handle, the same calls reach the backend and return when the
\* backend accepts them.
C13_NoHandleIsATypedError ==
    last.op \in {"insert_vector", "search_vectors"} =>
        /\ HandleWasNone =>
              /\ Len(BackendCalls) = 0
              /\ Len(LogsOf(AdapterLogger)) = 1
              /\ LogsOf(AdapterLogger)[1].what = "error"
              /\ last.outcome.kind = "raise"
              /\ last.outcome.type =
                    (IF last.op = "insert_vector" THEN "VectorInsertionError"
                     ELSE "VectorSearchError")
              /\ last.outcome.code =
                    (IF last.op = "insert_vector" THEN "VECTOR_INSERTION_ERROR"
                     ELSE "VECTOR_SEARCH_ERROR")
              /\ adapter[1].client = None
        /\ WasConnected =>
              /\ Len(BackendCalls) = 1
              /\ BackendCalls[1].who = last.before[1].client
              /\ BackendCalls[1].raised = "none" => last.outcome.kind = "return"

\* insert_vector("c", "vec1", [0.1, 0.2, 0.3]) raised VectorInsertionError on
\* an adapter that had not connected.
C13_Witness ==
    /\ last.op = "insert_vector"
    /\ HandleWasNone
    /\ last.outcome.code = "VECTOR_INSERTION_ERROR"
    /\ adapter[1].client = None

(* ---------- C14 ---------- *)

\* The last call was a connect that raised.
ConnectFailed == last.op = "connect" /\ last.outcome.kind = "raise"

\* The backend calls and the adapter's log events of a call, in order.
AdapterEvents(ev) ==
    SelectSeq(ev, LAMBDA e : e.kind = "backend" \/ (e.kind = "log" /\ e.who = AdapterLogger))

\* C14: a connect that fails because constructing the backend client raises
\* leaves the adapter and its handle exactly as they were (None, or the handle
\* of the last successful connect) and raises DBConnectionError with code
\* DB_CONN_ERROR after one error log event; a handle held through the failed
\* connect is the one the next create_collection, insert_vector or
\* search_vectors call uses.
C14_FailedConnectKeepsHandle ==
    [][ /\ ConnectFailed' =>
              /\ adapter' = adapter
              /\ last'.outcome.type = "DBConnectionError"
              /\ last'.outcome.code = "DB_CONN_ERROR"
              /\ Len(AdapterEvents(last'.ev)) = 2
              /\ AdapterEvents(last'.ev)[1].kind = "backend"
              /\ AdapterEvents(last'.ev)[1].what = "QdrantClient"
              /\ AdapterEvents(last'.ev)[1].raised # "none"
              /\ AdapterEvents(last'.ev)[2].kind = "log"
              /\ AdapterEvents(last'.ev)[2].what = "error"
        /\ (/\ ConnectFailed /\ adapter[1].client # None
            /\ last'.op \in {"create_collection", "insert_vector", "search_vectors"}
            /\ last'.op = "create_collection" => Upper(MetricGiven') \in DistanceMembers) =>
              /\ Len(AdapterEvents(last'.ev)) >= 1
              /\ AdapterEvents(last'.ev)[1].kind = "backend"
              /\ AdapterEvents(last'.ev)[1].who = adapter[1].client
              /\ AdapterEvents(last'.ev)[1].raised = "none" => last'.outcome.kind = "return"
      ]_vars

\* connect raised DBConnectionError on an adapter that keeps the handle of an
\* earlier successful connect.
C14_Witness ==
    /\ ConnectFailed
    /\ last.outcome.code = "DB_CONN_ERROR"
    /\ WasConnected
    /\ adapter[1].client = last.before[1].client
    /\ adapter[1].client # None

====
